---- MODULE Spec2Model ----
(***************************************************************************)
(* Model of the task manager of src/src/main.rs: the in-memory store        *)
(* (AppData), its operations, and the two JSON files it is saved to and     *)
(* loaded from.                                                             *)
(***************************************************************************)
EXTENDS Integers, Sequences, FiniteSets, TLC

VARIABLES task_lists, users, tasks_file, users_file, last, session

vars == <<task_lists, users, tasks_file, users_file, last, session>>

(* ----------------------------- bounds ---------------------------------- *)

\* most tasks the store holds at once (all users together)
MaxTasks == 2

\* user names; they differ only in letter case
Usernames == {"a", "A"}

Passwords == {"p", "q"}

\* salts the hash function may draw
Salts == {"s1", "s2"}

\* task descriptions, as sequences of characters
Descriptions == {<<"x">>, <<"y", "y">>}

\* task ids a caller may pass (u32 values)
TaskIds == 1..MaxTasks

(* --------------------------- password hash ----------------------------- *)

\* bcrypt::hash: the digest carries the salt it was made with
hash(password, salt) == "$2b$" \o salt \o "$" \o password

\* a stored hash that is not of bcrypt's form
MalformedHash == "garbage"

\* bcrypt::verify: "Err" on a malformed hash, else recompute with the salt
\* of the stored hash and compare
verify(password, hashed) ==
    IF \A s \in Salts, p \in Passwords : hashed # hash(p, s)
    THEN "Err"
    ELSE IF \E s \in Salts : hashed = hash(password, s) THEN "true" ELSE "false"

(* ----------------------------- the store ------------------------------- *)

Task(id, description, completed) ==
    [id |-> id, description |-> description, completed |-> completed]

User(username, password) == [username |-> username, password |-> password]

TaskList(username, tasks) == [username |-> username, tasks |-> tasks]

\* AppData::new
NewTaskLists == <<>>

NewUsers == <<>>

FindList_nonempty(lists, username) ==
    IF \E i \in 1..Len(lists) :
          lists[i].username = username /\ lists[i].tasks # <<>>
    THEN CHOOSE i \in 1..Len(lists) :
            lists[i].username = username /\ lists[i].tasks # <<>>
    ELSE 0

\* iter().find(|list| list.username == username): index of the first match, 0 if none
FindList(lists, username) ==
    IF \E i \in 1..Len(lists) : lists[i].username = username
    THEN CHOOSE i \in 1..Len(lists) :
            /\ lists[i].username = username
            /\ \A j \in 1..(i - 1) : lists[j].username # username
    ELSE 0

FindTask_first(tasks, task_id) ==
    IF \E i \in 1..Len(tasks) : tasks[i].id = task_id
    THEN CHOOSE i \in 1..Len(tasks) :
            /\ tasks[i].id = task_id
            /\ \A j \in 1..(i - 1) : tasks[j].id # task_id
    ELSE IF tasks # <<>> THEN 1 ELSE 0

\* list.tasks.iter_mut().find(|task| task.id == task_id): first match, 0 if none
FindTask(tasks, task_id) ==
    IF \E i \in 1..Len(tasks) : tasks[i].id = task_id
    THEN CHOOSE i \in 1..Len(tasks) :
            /\ tasks[i].id = task_id
            /\ \A j \in 1..(i - 1) : tasks[j].id # task_id
    ELSE 0

\* the tasks of username ("no list" reads as the empty sequence)
TasksOf(lists, username) ==
    LET i == FindList(lists, username) IN
    IF i = 0 THEN <<>> ELSE lists[i].tasks

HasList(lists, username) == FindList(lists, username) # 0

RECURSIVE TotalTasks(_)
TotalTasks(lists) ==
    IF lists = <<>> THEN 0 ELSE Len(Head(lists).tasks) + TotalTasks(Tail(lists))

\* a file that does not exist
Absent == [exists |-> FALSE, content |-> <<>>]

\* the record of the call just made: operation, arguments, return value,
\* printed output; run counts the add_task calls made in a row on one user
\* since that user had no list; gone holds the tasks the preceding remove_task
\* took out
Call(op, username, password, task_id, description, ret, out, run, gone) ==
    [op |-> op, username |-> username, password |-> password,
     task_id |-> task_id, description |-> description, ret |-> ret,
     out |-> out, run |-> run, gone |-> gone, io |-> <<>>]

\* the record of a save or load: io lists the file operations it performed,
\* each as <<file, operation, outcome>>
IoCall(op, ret, io) ==
    [op |-> op, username |-> "", password |-> "", task_id |-> 0,
     description |-> <<>>, ret |-> ret, out |-> <<>>, run |-> 0,
     gone |-> <<>>, io |-> io]

NoCall == Call("new", "", "", 0, <<>>, "unit", <<>>, 0, <<>>)

\* where main stands, what it has read from the terminal and what it found
\* at startup: pc is the position in main, username and password are the
\* login lines, registered is the user name registered in this run, auth is
\* what authenticate returned, choice and line are the menu lines read last,
\* tasks_file0 and users_file0 are the files at startup, entry_lists and
\* entry_users the store when the menu loop was entered
Session(pc, tfile, ufile) ==
    [pc |-> pc, username |-> "", password |-> "", registered |-> "",
     auth |-> "none", choice |-> "", line |-> <<>>,
     tasks_file0 |-> tfile, users_file0 |-> ufile,
     entry_lists |-> NewTaskLists, entry_users |-> NewUsers]

\* main is not running
NoSession == Session("none", Absent, Absent)

(* --------------------------- JSON documents ---------------------------- *)
(* A file is a sequence of tokens.  A token stands for a run of bytes of    *)
(* fixed width: a punctuation mark, an object key with its colon, a user    *)
(* name, a password hash.  What varies in width is spelt out token by       *)
(* token: the characters of a description, the digits of an id, the letters *)
(* of true and false.  So two documents have the same number of tokens      *)
(* exactly when they have the same number of bytes.                         *)

QUOTE == "\""

DigitChars == <<"0", "1", "2", "3", "4", "5", "6", "7", "8", "9">>

RECURSIVE Digits(_)
\* decimal digits of an unsigned number
Digits(n) ==
    IF n < 10 THEN <<DigitChars[n + 1]>>
    ELSE Digits(n \div 10) \o <<DigitChars[(n % 10) + 1]>>

SerBool(b) == IF b THEN <<"t", "r", "u", "e">> ELSE <<"f", "a", "l", "s", "e">>

\* a string value whose content is one token (user name, password hash)
SerName(name) == <<QUOTE, name, QUOTE>>

\* a string value written character by character
SerText(chars) == <<QUOTE>> \o chars \o <<QUOTE>>

RECURSIVE SerArray(_)
\* the elements of an array, already serialized, between brackets and commas
SerArray(items) ==
    IF items = <<>> THEN <<"[", "]">>
    ELSE IF Len(items) = 1 THEN <<"[">> \o items[1] \o <<"]">>
    ELSE <<"[">> \o items[1] \o <<",">> \o Tail(SerArray(Tail(items)))

SerTask(task) ==
    <<"{", "\"id\":">> \o Digits(task.id) \o
    <<",", "\"description\":">> \o SerText(task.description) \o
    <<",", "\"completed\":">> \o SerBool(task.completed) \o <<"}">>

SerTaskList(list) ==
    <<"{", "\"username\":">> \o SerName(list.username) \o
    <<",", "\"tasks\":">> \o
    SerArray([k \in 1..Len(list.tasks) |-> SerTask(list.tasks[k])]) \o <<"}">>

\* serde_json::to_writer(task_file, &self.task_lists)
SerTaskLists(lists) == SerArray([i \in 1..Len(lists) |-> SerTaskList(lists[i])])

SerUser(user) ==
    <<"{", "\"username\":">> \o SerName(user.username) \o
    <<",", "\"password\":">> \o SerName(user.password) \o <<"}">>

\* serde_json::to_writer(user_file, &users)
SerUsers(list) == SerArray([i \in 1..Len(list) |-> SerUser(list[i])])

\* the result of a parser: ok, the value, the position after it
Parsed(val, pos) == [ok |-> TRUE, val |-> val, pos |-> pos]

ParseErr == [ok |-> FALSE, val |-> <<>>, pos |-> 0]

\* the token at position p, "" past the end
At(f, p) == IF p >= 1 /\ p <= Len(f) THEN f[p] ELSE ""

\* the tokens ks in a row from position p
Expect(f, p, ks) == \A i \in 1..Len(ks) : At(f, p + i - 1) = ks[i]

RECURSIVE Concat(_)
Concat(toks) == IF toks = <<>> THEN "" ELSE Head(toks) \o Concat(Tail(toks))

\* a string: from the opening quote to the next quote
ParseText(f, p) ==
    IF At(f, p) # QUOTE \/ ~\E q \in (p + 1)..Len(f) : f[q] = QUOTE
    THEN ParseErr
    ELSE LET q == CHOOSE q \in (p + 1)..Len(f) :
                      /\ f[q] = QUOTE
                      /\ \A r \in (p + 1)..(q - 1) : f[r] # QUOTE
         IN  Parsed(SubSeq(f, p + 1, q - 1), q + 1)

NameOf(r) == IF r.ok THEN Parsed(Concat(r.val), r.pos) ELSE ParseErr

\* a string whose content is read as one name
ParseName(f, p) == NameOf(ParseText(f, p))

IsDigit(c) == \E d \in 1..10 : DigitChars[d] = c

DigitValue(c) == (CHOOSE d \in 1..10 : DigitChars[d] = c) - 1

RECURSIVE NumberFrom(_, _, _)
NumberFrom(f, p, acc) ==
    IF IsDigit(At(f, p)) THEN NumberFrom(f, p + 1, 10 * acc + DigitValue(f[p]))
    ELSE Parsed(acc, p)

\* an unsigned number: digits, no leading zero before another digit
ParseNumber(f, p) ==
    IF ~IsDigit(At(f, p)) THEN ParseErr
    ELSE IF f[p] = "0" /\ IsDigit(At(f, p + 1)) THEN ParseErr
    ELSE NumberFrom(f, p, 0)

ParseBool(f, p) ==
    IF Expect(f, p, SerBool(TRUE)) THEN Parsed(TRUE, p + 4)
    ELSE IF Expect(f, p, SerBool(FALSE)) THEN Parsed(FALSE, p + 5)
    ELSE ParseErr

\* the closing brace of a task, after its completed flag c
TaskEnd(f, id, description, c) ==
    IF ~c.ok \/ At(f, c.pos) # "}" THEN ParseErr
    ELSE Parsed(Task(id, description, c.val), c.pos + 1)

\* the completed field of a task, after its description d
TaskCompleted(f, id, d) ==
    IF ~d.ok \/ ~Expect(f, d.pos, <<",", "\"completed\":">>) THEN ParseErr
    ELSE TaskEnd(f, id, d.val, ParseBool(f, d.pos + 2))

\* the description field of a task, after its id
TaskDescription(f, id) ==
    IF ~id.ok \/ ~Expect(f, id.pos, <<",", "\"description\":">>) THEN ParseErr
    ELSE TaskCompleted(f, id.val, ParseText(f, id.pos + 2))

ParseTask(f, p) ==
    IF ~Expect(f, p, <<"{", "\"id\":">>) THEN ParseErr
    ELSE TaskDescription(f, ParseNumber(f, p + 2))

RECURSIVE ParseTasksFrom(_, _, _)
\* the rest of the tasks array after the element t, up to the bracket
ParseTasksFrom(f, t, acc) ==
    IF ~t.ok THEN ParseErr
    ELSE IF At(f, t.pos) = "]" THEN Parsed(Append(acc, t.val), t.pos + 1)
    ELSE IF At(f, t.pos) # "," THEN ParseErr
    ELSE ParseTasksFrom(f, ParseTask(f, t.pos + 1), Append(acc, t.val))

ParseTasks(f, p) ==
    IF At(f, p) # "[" THEN ParseErr
    ELSE IF At(f, p + 1) = "]" THEN Parsed(<<>>, p + 2)
    ELSE ParseTasksFrom(f, ParseTask(f, p + 1), <<>>)

\* the closing brace of a task list, after its tasks ts
TaskListEnd(f, username, ts) ==
    IF ~ts.ok \/ At(f, ts.pos) # "}" THEN ParseErr
    ELSE Parsed(TaskList(username, ts.val), ts.pos + 1)

\* the tasks field of a task list, after its user name u
TaskListTasks(f, u) ==
    IF ~u.ok \/ ~Expect(f, u.pos, <<",", "\"tasks\":">>) THEN ParseErr
    ELSE TaskListEnd(f, u.val, ParseTasks(f, u.pos + 2))

ParseTaskList(f, p) ==
    IF ~Expect(f, p, <<"{", "\"username\":">>) THEN ParseErr
    ELSE TaskListTasks(f, ParseName(f, p + 2))

RECURSIVE ParseTaskListsFrom(_, _, _)
\* the rest of the array of task lists after the element l
ParseTaskListsFrom(f, l, acc) ==
    IF ~l.ok THEN ParseErr
    ELSE IF At(f, l.pos) = "]" THEN Parsed(Append(acc, l.val), l.pos + 1)
    ELSE IF At(f, l.pos) # "," THEN ParseErr
    ELSE ParseTaskListsFrom(f, ParseTaskList(f, l.pos + 1), Append(acc, l.val))

\* what follows the value must be the end of the input
AtEnd(f, r) == IF r.ok /\ r.pos = Len(f) + 1 THEN r ELSE ParseErr

\* serde_json::from_reader::<Vec<TaskList>>
ParseTaskLists(f) ==
    IF At(f, 1) # "[" THEN ParseErr
    ELSE IF At(f, 2) = "]" THEN AtEnd(f, Parsed(<<>>, 3))
    ELSE AtEnd(f, ParseTaskListsFrom(f, ParseTaskList(f, 2), <<>>))

\* the closing brace of a user, after the password hash h
UserEnd(f, username, h) ==
    IF ~h.ok \/ At(f, h.pos) # "}" THEN ParseErr
    ELSE Parsed(User(username, h.val), h.pos + 1)

\* the password field of a user, after the user name u
UserPassword(f, u) ==
    IF ~u.ok \/ ~Expect(f, u.pos, <<",", "\"password\":">>) THEN ParseErr
    ELSE UserEnd(f, u.val, ParseName(f, u.pos + 2))

ParseUser(f, p) ==
    IF ~Expect(f, p, <<"{", "\"username\":">>) THEN ParseErr
    ELSE UserPassword(f, ParseName(f, p + 2))

RECURSIVE ParseUsersFrom(_, _, _)
\* the rest of the array of users after the element u
ParseUsersFrom(f, u, acc) ==
    IF ~u.ok THEN ParseErr
    ELSE IF At(f, u.pos) = "]" THEN Parsed(Append(acc, u.val), u.pos + 1)
    ELSE IF At(f, u.pos) # "," THEN ParseErr
    ELSE ParseUsersFrom(f, ParseUser(f, u.pos + 1), Append(acc, u.val))

\* serde_json::from_reader::<Vec<User>>
ParseUsers(f) ==
    IF At(f, 1) # "[" THEN ParseErr
    ELSE IF At(f, 2) = "]" THEN AtEnd(f, Parsed(<<>>, 3))
    ELSE AtEnd(f, ParseUsersFrom(f, ParseUser(f, 2), <<>>))

(* ---------------------------- operations ------------------------------- *)

NewId_len(tasks) == Len(tasks)

NewId_skip(tasks) == Len(tasks) + 2

\* the id add_task gives a new task of a list
NewId(tasks) == Len(tasks) + 1

AddTaskLists(lists, username, description) ==
    LET i == FindList(lists, username) IN
    IF i # 0
    THEN [lists EXCEPT ![i].tasks =
              Append(@, Task(NewId(@), description, FALSE))]
    ELSE Append(lists, TaskList(username, <<Task(1, description, FALSE)>>))

add_task(username, description) ==
    /\ task_lists' = AddTaskLists(task_lists, username, description)
    /\ last' = Call("add_task", username, "", 0, description, "unit", <<>>,
                    IF ~HasList(task_lists, username) THEN 1
                    ELSE IF last.op = "add_task" /\ last.username = username /\ last.run > 0
                         THEN last.run + 1 ELSE 0,
                    IF last.op = "remove_task" /\ last.username = username
                    THEN last.gone ELSE <<>>)
    /\ UNCHANGED <<users, tasks_file, users_file>>

\* tasks.retain(|task| task.id != task_id)
Retain(tasks, task_id) == SelectSeq(tasks, LAMBDA t : t.id # task_id)

RemoveTaskLists(lists, username, task_id) ==
    LET i == FindList(lists, username) IN
    IF i # 0 THEN [lists EXCEPT ![i].tasks = Retain(@, task_id)] ELSE lists

remove_task(username, task_id) ==
    /\ task_lists' = RemoveTaskLists(task_lists, username, task_id)
    /\ last' = Call("remove_task", username, "", task_id, <<>>, "unit", <<>>, 0,
                    SelectSeq(TasksOf(task_lists, username),
                              LAMBDA t : t.id = task_id))
    /\ UNCHANGED <<users, tasks_file, users_file>>

EditTaskLists(lists, username, task_id, new_description) ==
    LET i == FindList(lists, username) IN
    IF i = 0 THEN lists
    ELSE LET k == FindTask(lists[i].tasks, task_id) IN
         IF k = 0 THEN lists
         ELSE [lists EXCEPT ![i].tasks[k].description = new_description]

edit_task(username, task_id, new_description) ==
    /\ task_lists' = EditTaskLists(task_lists, username, task_id, new_description)
    /\ last' = Call("edit_task", username, "", task_id, new_description, "unit",
                    <<>>, 0, <<>>)
    /\ UNCHANGED <<users, tasks_file, users_file>>

MarkCompletedLists_toggle(lists, username, task_id) ==
    LET i == FindList(lists, username) IN
    IF i = 0 THEN lists
    ELSE LET k == FindTask(lists[i].tasks, task_id) IN
         IF k = 0 THEN lists
         ELSE [lists EXCEPT ![i].tasks[k].completed = ~@]

MarkCompletedLists(lists, username, task_id) ==
    LET i == FindList(lists, username) IN
    IF i = 0 THEN lists
    ELSE LET k == FindTask(lists[i].tasks, task_id) IN
         IF k = 0 THEN lists
         ELSE [lists EXCEPT ![i].tasks[k].completed = TRUE]

mark_completed(username, task_id) ==
    /\ task_lists' = MarkCompletedLists(task_lists, username, task_id)
    /\ last' = Call("mark_completed", username, "", task_id, <<>>, "unit",
                    <<>>, 0, <<>>)
    /\ UNCHANGED <<users, tasks_file, users_file>>

\* HashMap::insert: the entry of key is replaced or added
MapInsert(map, key, value) ==
    [k \in (DOMAIN map) \cup {key} |-> IF k = key THEN value ELSE map[k]]

LowerCase(name) == IF name = "A" THEN "a" ELSE name

ContainsKey_nocase(map, key) ==
    \E k \in DOMAIN map : LowerCase(k) = LowerCase(key)

\* HashMap::contains_key: exact match of the key
ContainsKey(map, key) == key \in DOMAIN map

register_user(username, password, salt) ==
    /\ IF ContainsKey(users, username)
       THEN /\ users' = users
            /\ last' = Call("register_user", username, password, 0, <<>>,
                            "AlreadyExists", <<>>, 0, <<>>)
       ELSE /\ users' = MapInsert(users, username,
                                  User(username, hash(password, salt)))
            /\ last' = Call("register_user", username, password, 0, <<>>,
                            "Ok", <<>>, 0, <<>>)
    /\ UNCHANGED <<task_lists, tasks_file, users_file>>

UnwrapOrFalse_true(r) == IF r = "Err" THEN "true" ELSE r

\* Result::unwrap_or(false)
UnwrapOrFalse(r) == IF r = "Err" THEN "false" ELSE r

Authenticate(map, username, password) ==
    IF username \in DOMAIN map
    THEN UnwrapOrFalse(verify(password, map[username].password))
    ELSE "false"

authenticate(username, password) ==
    /\ last' = Call("authenticate", username, password, 0, <<>>,
                    Authenticate(users, username, password), <<>>, 0, <<>>)
    /\ UNCHANGED <<task_lists, users, tasks_file, users_file>>

\* one printed line
Line(kind, username, id, description, status) ==
    [kind |-> kind, username |-> username, id |-> id,
     description |-> description, status |-> status]

Status(task) == IF task.completed THEN "Completed" ELSE "Pending"

DisplayTasks_hideEmpty(lists, username) ==
    LET i == FindList(lists, username) IN
    IF i # 0 /\ lists[i].tasks # <<>>
    THEN <<Line("Tasks for", username, 0, <<>>, "")>> \o
         [k \in 1..Len(lists[i].tasks) |->
            Line("ID", "", lists[i].tasks[k].id,
                 lists[i].tasks[k].description, Status(lists[i].tasks[k]))]
    ELSE <<Line("No tasks found for", username, 0, <<>>, "")>>

DisplayTasks(lists, username) ==
    LET i == FindList(lists, username) IN
    IF i # 0
    THEN <<Line("Tasks for", username, 0, <<>>, "")>> \o
         [k \in 1..Len(lists[i].tasks) |->
            Line("ID", "", lists[i].tasks[k].id,
                 lists[i].tasks[k].description, Status(lists[i].tasks[k]))]
    ELSE <<Line("No tasks found for", username, 0, <<>>, "")>>

display_tasks(username) ==
    /\ last' = Call("display_tasks", username, "", 0, <<>>, "unit",
                    DisplayTasks(task_lists, username), 0, <<>>)
    /\ UNCHANGED <<task_lists, users, tasks_file, users_file>>

(* --------------------------- save and load ----------------------------- *)

\* OpenOptions::new().create(true).write(true).open(..): an absent file is
\* created empty, the content of an existing one is kept
OpenForWrite(file) == [exists |-> TRUE, content |-> file.content]

\* writing data from the start of an open file: what lies beyond stays
Overwrite(file, data) ==
    [exists |-> TRUE,
     content |-> data \o SubSeq(file.content, Len(data) + 1, Len(file.content))]

\* the orders HashMap::values() may yield the entries of map in
ValueOrders(map) ==
    {[i \in 1..Cardinality(DOMAIN map) |-> map[keys[i]]] :
        keys \in {k \in [1..Cardinality(DOMAIN map) -> DOMAIN map] :
                    \A i, j \in 1..Cardinality(DOMAIN map) :
                        i # j => k[i] # k[j]}}

\* outcomes of opening and writing one file
Faults == {"ok", "open", "write"}

\* what one file holds after save's open and write of data, of which only the
\* first n tokens arrive when the write fails
Written(file, data, fault, n) ==
    IF fault = "open" THEN file
    ELSE IF fault = "write" THEN Overwrite(OpenForWrite(file), SubSeq(data, 1, n))
    ELSE Overwrite(OpenForWrite(file), data)

\* the file operations of save on one file
WriteEvents(name, fault) ==
    IF fault = "open" THEN << <<name, "open", "Err">> >>
    ELSE << <<name, "open", "Ok">>,
            <<name, "write", IF fault = "write" THEN "Err" ELSE "Ok">> >>

save_both(tfault, tn, ufault, un, values) ==
    /\ tasks_file' = Written(tasks_file, SerTaskLists(task_lists), tfault, tn)
    /\ users_file' = Written(users_file, SerUsers(values), ufault, un)
    /\ last' = IoCall("save",
                      IF tfault # "ok" \/ ufault # "ok" THEN "Err" ELSE "Ok",
                      WriteEvents("tasks.json", tfault) \o
                      WriteEvents("users.json", ufault))
    /\ UNCHANGED <<task_lists, users>>

save(tfault, tn, ufault, un, values) ==
    /\ tasks_file' = Written(tasks_file, SerTaskLists(task_lists), tfault, tn)
    /\ IF tfault # "ok"
       THEN /\ users_file' = users_file
            /\ last' = IoCall("save", "Err", WriteEvents("tasks.json", tfault))
       ELSE /\ users_file' = Written(users_file, SerUsers(values), ufault, un)
            /\ last' = IoCall("save", IF ufault # "ok" THEN "Err" ELSE "Ok",
                              WriteEvents("tasks.json", tfault) \o
                              WriteEvents("users.json", ufault))
    /\ UNCHANGED <<task_lists, users>>

RECURSIVE InsertAll(_, _)
\* for user in users { app_data.users.insert(user.username.clone(), user); }
InsertAll(map, list) ==
    IF list = <<>> THEN map
    ELSE InsertAll(MapInsert(map, Head(list).username, Head(list)), Tail(list))

\* the file operations of load on one file that exists
ReadEvents(name, opened, parsed) ==
    IF ~opened THEN << <<name, "open", "Err">> >>
    ELSE << <<name, "open", "Ok">>,
            <<name, "read", IF parsed THEN "Ok" ELSE "Err">> >>

ReadFile_lenient(name, file, fault, parsed) ==
    IF ~file.exists THEN [ok |-> TRUE, val |-> <<>>, io |-> <<>>]
    ELSE IF fault = name
    THEN [ok |-> FALSE, val |-> <<>>, io |-> ReadEvents(name, FALSE, FALSE)]
    ELSE [ok |-> TRUE, val |-> parsed.val,
          io |-> ReadEvents(name, TRUE, parsed.ok)]

\* what load() has after reading one file: the parse result and the file
\* operations performed; an absent file gives the empty value; fault names
\* the file whose File::open fails, if any
ReadFile(name, file, fault, parsed) ==
    IF ~file.exists THEN [ok |-> TRUE, val |-> <<>>, io |-> <<>>]
    ELSE IF fault = name
    THEN [ok |-> FALSE, val |-> <<>>, io |-> ReadEvents(name, FALSE, FALSE)]
    ELSE [ok |-> parsed.ok, val |-> parsed.val,
          io |-> ReadEvents(name, TRUE, parsed.ok)]

\* the result of load(), given what the two files gave: the users file is
\* not touched when the tasks file failed
Loaded(t, u) ==
    IF ~t.ok
    THEN [ok |-> FALSE, task_lists |-> NewTaskLists, users |-> NewUsers,
          io |-> t.io]
    ELSE IF ~u.ok
    THEN [ok |-> FALSE, task_lists |-> NewTaskLists, users |-> NewUsers,
          io |-> t.io \o u.io]
    ELSE [ok |-> TRUE, task_lists |-> t.val,
          users |-> InsertAll(NewUsers, u.val), io |-> t.io \o u.io]

\* the store load() returns from the two files, or the error, and the file
\* operations it performed
Load(tfile, ufile, fault) ==
    Loaded(ReadFile("tasks.json", tfile, fault, ParseTaskLists(tfile.content)),
           ReadFile("users.json", ufile, fault, ParseUsers(ufile.content)))

\* the store a successful load gives, otherwise the store at hand
StoreAfter(r, lists, map) ==
    IF r.ok THEN [task_lists |-> r.task_lists, users |-> r.users]
    ELSE [task_lists |-> lists, users |-> map]

LoadStep(r) ==
    /\ task_lists' = StoreAfter(r, task_lists, users).task_lists
    /\ users' = StoreAfter(r, task_lists, users).users
    /\ last' = IoCall("load", IF r.ok THEN "Ok" ELSE "Err", r.io)
    /\ UNCHANGED <<tasks_file, users_file>>

\* load(): the store it returns replaces the one at hand; on an error there
\* is no new store
load(fault) == LoadStep(Load(tasks_file, users_file, fault))

(* --------------------------- specification ----------------------------- *)

Init ==
    /\ task_lists = NewTaskLists
    /\ users = NewUsers
    /\ tasks_file = Absent
    /\ users_file = Absent
    /\ last = NoCall
    /\ session = NoSession

AddTask ==
    \E u \in Usernames, d \in Descriptions :
        /\ TotalTasks(task_lists) < MaxTasks
        /\ add_task(u, d)
        /\ UNCHANGED session

RemoveTask ==
    \E u \in Usernames, t \in TaskIds : remove_task(u, t) /\ UNCHANGED session

EditTask ==
    \E u \in Usernames, t \in TaskIds, d \in Descriptions :
        edit_task(u, t, d) /\ UNCHANGED session

MarkCompleted ==
    \E u \in Usernames, t \in TaskIds : mark_completed(u, t) /\ UNCHANGED session

DisplayTasksCall == \E u \in Usernames : display_tasks(u) /\ UNCHANGED session

\* the task operations on the store, in any order
Next ==
    \/ AddTask
    \/ RemoveTask
    \/ EditTask
    \/ MarkCompleted
    \/ DisplayTasksCall

Spec == Init /\ [][Next]_vars

(* ------------------- registration and authentication ------------------- *)

\* most tasks held while users register and log in
UserTasks == 1

\* a users.json found at startup, written by hand, with a hash that is not a
\* bcrypt hash
ForeignUsersFile ==
    [exists |-> TRUE, content |-> SerUsers(<<User("a", MalformedHash)>>)]

LoadOrNew_partial(tfile, ufile) ==
    [task_lists |->
        ReadFile("tasks.json", tfile, "none", ParseTaskLists(tfile.content)).val,
     users |->
        InsertAll(NewUsers,
            ReadFile("users.json", ufile, "none", ParseUsers(ufile.content)).val)]

\* let mut app_data = AppData::load().unwrap_or_else(|_| AppData::new())
LoadOrNew(tfile, ufile) ==
    StoreAfter(Load(tfile, ufile, "none"), NewTaskLists, NewUsers)

UserInit ==
    /\ tasks_file = Absent
    /\ users_file \in {Absent, ForeignUsersFile}
    /\ task_lists = LoadOrNew(tasks_file, users_file).task_lists
    /\ users = LoadOrNew(tasks_file, users_file).users
    /\ last = NoCall
    /\ session = NoSession

RegisterUser ==
    \E u \in Usernames, p \in Passwords, s \in Salts :
        register_user(u, p, s) /\ UNCHANGED session

AuthenticateCall ==
    \E u \in Usernames, p \in Passwords : authenticate(u, p) /\ UNCHANGED session

UserAddTask ==
    \E u \in Usernames, d \in Descriptions :
        /\ TotalTasks(task_lists) < UserTasks
        /\ add_task(u, d)
        /\ UNCHANGED session

UserNext ==
    \/ RegisterUser
    \/ AuthenticateCall
    \/ UserAddTask

UserSpec == UserInit /\ [][UserNext]_vars

(* ----------------------------- persistence ----------------------------- *)

\* most tasks held while the store is saved and loaded
IoTasks == 1

\* the user of the saved sessions
IoUsernames == {"a"}

IoDescriptions == {<<"x">>}

IoAddTask ==
    \E u \in IoUsernames, d \in IoDescriptions :
        /\ TotalTasks(task_lists) < IoTasks
        /\ add_task(u, d)
        /\ UNCHANGED session

IoRemoveTask ==
    \E u \in IoUsernames, t \in 1..IoTasks : remove_task(u, t) /\ UNCHANGED session

IoMarkCompleted ==
    \E u \in IoUsernames, t \in 1..IoTasks :
        mark_completed(u, t) /\ UNCHANGED session

IoRegisterUser ==
    \E u \in IoUsernames : register_user(u, "p", "s1") /\ UNCHANGED session

\* how many tokens of data may have arrived when the write of data fails:
\* none, or the opening bracket
TornLengths(data) == {n \in {0, 1} : n < Len(data)}

\* save() with every outcome of its file operations: the tasks file fails to
\* open or to be written, or it is written and the users file fails to open
\* or to be written, or both are written
SaveOutcomes ==
    \E values \in ValueOrders(users) :
        \/ save("open", 0, "ok", 0, values)
        \/ \E tn \in TornLengths(SerTaskLists(task_lists)) :
              save("write", tn, "ok", 0, values)
        \/ save("ok", 0, "open", 0, values)
        \/ \E un \in TornLengths(SerUsers(values)) :
              save("ok", 0, "write", un, values)
        \/ save("ok", 0, "ok", 0, values)

SaveCall == SaveOutcomes /\ UNCHANGED session

LoadCall ==
    \E fault \in {"none", "tasks.json", "users.json"} :
        load(fault) /\ UNCHANGED session

IoNext ==
    \/ IoAddTask
    \/ IoRemoveTask
    \/ IoMarkCompleted
    \/ IoRegisterUser
    \/ SaveCall
    \/ LoadCall

IoSpec == Init /\ [][IoNext]_vars

(* ------------------------------ session -------------------------------- *)

\* most tasks the list of the logged-in user holds
SessionTasks == 1

\* what an earlier run saved: a list and an account of user "A"
StoredLists == <<TaskList("A", <<Task(1, <<"x">>, FALSE)>>)>>

StoredUsers == <<User("A", hash("p", "s1"))>>

StoredTasksFile == [exists |-> TRUE, content |-> SerTaskLists(StoredLists)]

StoredUsersFile == [exists |-> TRUE, content |-> SerUsers(StoredUsers)]

\* what a save of an empty store over those files leaves: the new document
\* followed by the rest of the old one
StaleTasksFile == Overwrite(StoredTasksFile, SerTaskLists(NewTaskLists))

StaleUsersFile == Overwrite(StoredUsersFile, SerUsers(<<>>))

\* the lines typed for a description and for a task id
DescriptionLines == {<<"x", "\n">>, <<" ", "y", "y", "\n">>}

IdLines == {<<"1", "\n">>, <<" ", "2", "\n">>, <<"x", "\n">>, <<"1", "x", "\n">>}

Whitespace == {" ", "\n"}

RECURSIVE TrimStart(_)
TrimStart(s) ==
    IF s # <<>> /\ Head(s) \in Whitespace THEN TrimStart(Tail(s)) ELSE s

RECURSIVE TrimEnd(_)
TrimEnd(s) ==
    IF s # <<>> /\ s[Len(s)] \in Whitespace
    THEN TrimEnd(SubSeq(s, 1, Len(s) - 1)) ELSE s

\* str::trim
Trim(s) == TrimEnd(TrimStart(s))

\* digits only and at least one; the lines typed here are too short to
\* exceed u32
ParseDigits(s) ==
    IF s # <<>> /\ \A k \in 1..Len(s) : IsDigit(s[k])
    THEN Parsed(NumberFrom(s, 1, 0).val, Len(s) + 1)
    ELSE ParseErr

ParseU32_zero(s) ==
    IF ParseDigits(s).ok THEN ParseDigits(s) ELSE Parsed(0, 1)

\* str::parse::<u32>: an optional plus sign, then digits
ParseU32(s) ==
    IF s # <<>> /\ Head(s) = "+" THEN ParseDigits(Tail(s)) ELSE ParseDigits(s)

\* the files main may find, the store not yet built
SessionInit ==
    /\ task_lists = NewTaskLists
    /\ users = NewUsers
    /\ tasks_file \in {Absent, StoredTasksFile, StaleTasksFile}
    /\ users_file \in {Absent, StoredUsersFile, StaleUsersFile}
    /\ last = NoCall
    /\ session = Session("start", tasks_file, users_file)

\* let mut app_data = AppData::load().unwrap_or_else(|_| AppData::new())
Start ==
    /\ session.pc = "start"
    /\ task_lists' = LoadOrNew(tasks_file, users_file).task_lists
    /\ users' = LoadOrNew(tasks_file, users_file).users
    /\ last' = IoCall("load",
                      IF Load(tasks_file, users_file, "none").ok
                      THEN "Ok" ELSE "Err",
                      Load(tasks_file, users_file, "none").io)
    /\ session' = [session EXCEPT !.pc = "choice"]
    /\ UNCHANGED <<tasks_file, users_file>>

\* choice "1": the user name and the password are the trimmed lines
Register(username, password, salt) ==
    /\ session.pc = "choice"
    /\ register_user(username, password, salt)
    /\ session' = [session EXCEPT !.pc = "login",
                      !.registered = IF last'.ret = "Ok" THEN username ELSE @]

ChooseRegister ==
    \E u \in Usernames, p \in Passwords, s \in Salts : Register(u, p, s)

\* any other choice
SkipRegister ==
    /\ session.pc = "choice"
    /\ session' = [session EXCEPT !.pc = "login"]
    /\ UNCHANGED <<task_lists, users, tasks_file, users_file, last>>

Login_open(username, password) ==
    /\ session.pc = "login"
    /\ authenticate(username, password)
    /\ session' = [session EXCEPT !.pc = "menu",
                      !.username = username, !.password = password,
                      !.auth = last'.ret,
                      !.entry_lists = task_lists, !.entry_users = users]

\* if app_data.authenticate(username, password) { loop .. } else { .. }
Login(username, password) ==
    /\ session.pc = "login"
    /\ authenticate(username, password)
    /\ session' = [session EXCEPT
                      !.pc = IF last'.ret = "true" THEN "menu" ELSE "denied",
                      !.username = username, !.password = password,
                      !.auth = last'.ret,
                      !.entry_lists = task_lists, !.entry_users = users]

LoginCall == \E u \in Usernames, p \in Passwords : Login(u, p)

\* the menu loop goes on with these lines read
Read(choice, line) == [session EXCEPT !.choice = choice, !.line = line]

\* task_id_str.trim().parse().unwrap() on a line that is no u32
Panic(choice, line) ==
    /\ session' = [session EXCEPT !.pc = "panicked",
                      !.choice = choice, !.line = line]
    /\ UNCHANGED <<task_lists, users, tasks_file, users_file, last>>

MenuDisplay ==
    /\ session.pc = "menu"
    /\ display_tasks(session.username)
    /\ session' = Read("1", <<>>)

MenuAdd_other(line) ==
    /\ session.pc = "menu"
    /\ Len(TasksOf(task_lists, session.username)) < SessionTasks
    /\ add_task(CHOOSE v \in Usernames : v # session.username, Trim(line))
    /\ session' = Read("2", line)

MenuAdd(line) ==
    /\ session.pc = "menu"
    /\ Len(TasksOf(task_lists, session.username)) < SessionTasks
    /\ add_task(session.username, Trim(line))
    /\ session' = Read("2", line)

MenuAddCall == \E line \in DescriptionLines : MenuAdd(line)

MenuRemove(line) ==
    /\ session.pc = "menu"
    /\ IF ParseU32(Trim(line)).ok
       THEN /\ remove_task(session.username, ParseU32(Trim(line)).val)
            /\ session' = Read("3", line)
       ELSE Panic("3", line)

MenuRemoveCall == \E line \in IdLines : MenuRemove(line)

\* the description is read after the id has been parsed
MenuEdit(line, new_description) ==
    /\ session.pc = "menu"
    /\ IF ParseU32(Trim(line)).ok
       THEN /\ edit_task(session.username, ParseU32(Trim(line)).val,
                         Trim(new_description))
            /\ session' = Read("4", line)
       ELSE Panic("4", line)

MenuEditCall ==
    \E line \in IdLines, d \in DescriptionLines : MenuEdit(line, d)

MenuMark(line) ==
    /\ session.pc = "menu"
    /\ IF ParseU32(Trim(line)).ok
       THEN /\ mark_completed(session.username, ParseU32(Trim(line)).val)
            /\ session' = Read("5", line)
       ELSE Panic("5", line)

MenuMarkCall == \E line \in IdLines : MenuMark(line)

MenuSave_stay ==
    /\ session.pc = "menu"
    /\ SaveOutcomes
    /\ session' = Read("6", <<>>)

\* app_data.save().unwrap(); break
MenuSave ==
    /\ session.pc = "menu"
    /\ SaveOutcomes
    /\ session' = [session EXCEPT
                      !.pc = IF last'.ret = "Ok" THEN "done" ELSE "panicked",
                      !.choice = "6", !.line = <<>>]

\* any other menu line
MenuInvalid ==
    /\ session.pc = "menu"
    /\ session' = Read("_", <<>>)
    /\ UNCHANGED <<task_lists, users, tasks_file, users_file, last>>

\* one run of main
SessionNext ==
    \/ Start
    \/ ChooseRegister
    \/ SkipRegister
    \/ LoginCall
    \/ MenuDisplay
    \/ MenuAddCall
    \/ MenuRemoveCall
    \/ MenuEditCall
    \/ MenuMarkCall
    \/ MenuSave
    \/ MenuInvalid

SessionSpec == SessionInit /\ [][SessionNext]_vars

(* ------------------------------ claims --------------------------------- *)

HasTask(lists, username, task_id) ==
    LET ts == TasksOf(lists, username) IN
    \E k \in 1..Len(ts) : ts[k].id = task_id

\* C1: in every reachable state no two tasks of one user's list have the
\* same id.
C1_UniqueIds ==
    \A i \in 1..Len(task_lists) :
        \A j, k \in 1..Len(task_lists[i].tasks) :
            j # k => task_lists[i].tasks[j].id # task_lists[i].tasks[k].id

HasEvent(io, file, operation, outcome) ==
    \E i \in 1..Len(io) : io[i] = <<file, operation, outcome>>

\* C2: after a successful save() the tasks file holds exactly the
\* serialization of the task lists and the users file exactly a serialization
\* of the users, whatever the files held before.
C2_SaveOverwrites ==
    (last.op = "save" /\ last.ret = "Ok") =>
        /\ tasks_file.exists
        /\ tasks_file.content = SerTaskLists(task_lists)
        /\ users_file.exists
        /\ \E values \in ValueOrders(users) : users_file.content = SerUsers(values)

\* C3: a load() that directly follows a successful save() succeeds and gives
\* back the same task lists and the same users, whatever the files held
\* before the save.
C3_RoundTrip ==
    [][(/\ last.op = "save" /\ last.ret = "Ok"
        /\ last'.op = "load"
        /\ ~HasEvent(last'.io, "tasks.json", "open", "Err")
        /\ ~HasEvent(last'.io, "users.json", "open", "Err")) =>
          /\ last'.ret = "Ok"
          /\ task_lists' = task_lists
          /\ users' = users
          /\ \A u \in Usernames, p \in Passwords :
                Authenticate(users', u, p) = Authenticate(users, u, p)
    ]_vars

\* C4: every save() attempts the write of the tasks file and the write of the
\* users file, returns an error when an open or a write of either failed, and
\* returns success only when both files were written.
C4_SaveAttemptsBoth ==
    last.op = "save" =>
        /\ \E outcome \in {"Ok", "Err"} :
              HasEvent(last.io, "tasks.json", "write", outcome)
        /\ \E outcome \in {"Ok", "Err"} :
              HasEvent(last.io, "users.json", "write", outcome)
        /\ (\E i \in 1..Len(last.io) : last.io[i][3] = "Err") => last.ret = "Err"
        /\ last.ret = "Ok" =>
              /\ HasEvent(last.io, "tasks.json", "write", "Ok")
              /\ HasEvent(last.io, "users.json", "write", "Ok")

\* data is what the file starts with
StartsWith(file, data) ==
    /\ file.exists
    /\ Len(file.content) >= Len(data)
    /\ SubSeq(file.content, 1, Len(data)) = data

\* C4 (amended): save() opens and writes the tasks file first and turns to
\* the users file only when that succeeded; it returns an error exactly when
\* an open or a write it attempted failed, and success only when both files
\* were written; the store is not changed.
C4_SaveFailFast ==
    [][last'.op = "save" =>
        LET io == last'.io
            tasksWritten == HasEvent(io, "tasks.json", "write", "Ok")
            usersTouched == \E i \in 1..Len(io) : io[i][1] = "users.json"
        IN  /\ io # <<>> /\ io[1][1] = "tasks.json" /\ io[1][2] = "open"
            /\ usersTouched <=> tasksWritten
            /\ ~tasksWritten => users_file' = users_file
            /\ tasksWritten => StartsWith(tasks_file', SerTaskLists(task_lists))
            /\ last'.ret = "Err" <=> \E i \in 1..Len(io) : io[i][3] = "Err"
            /\ last'.ret \in {"Ok", "Err"}
            /\ last'.ret = "Ok" =>
                  /\ tasksWritten
                  /\ HasEvent(io, "users.json", "write", "Ok")
                  /\ \E values \in ValueOrders(users) :
                        StartsWith(users_file', SerUsers(values))
            /\ task_lists' = task_lists
            /\ users' = users
    ]_vars

C4_Witness ==
    /\ last.op = "save"
    /\ last.ret = "Err"
    /\ HasEvent(last.io, "tasks.json", "write", "Err")
    /\ users # <<>>
    /\ ~users_file.exists

\* C5: register(u, p) on a store without u succeeds and adds one record for u
\* that holds a hash of p and leaves the other records alone; on a store with
\* u it fails with AlreadyExists and leaves the store as it was, so the record
\* of u still answers every password as before, and a well-formed record
\* accepts exactly one password.  Names are matched exactly: "a" and "A" are
\* two users.
C5_RegisterOnce ==
    [][last'.op = "register_user" =>
        LET u == last'.username
            p == last'.password
        IN  IF u \in DOMAIN users
            THEN /\ last'.ret = "AlreadyExists"
                 /\ users' = users
                 /\ task_lists' = task_lists
                 /\ \A q \in Passwords :
                       Authenticate(users', u, q) = Authenticate(users, u, q)
                 /\ users[u].password # MalformedHash =>
                       Cardinality({q \in Passwords :
                           Authenticate(users', u, q) = "true"}) = 1
            ELSE /\ last'.ret = "Ok"
                 /\ DOMAIN users' = DOMAIN users \cup {u}
                 /\ \A v \in DOMAIN users : users'[v] = users[v]
                 /\ users'[u].username = u
                 /\ \E s \in Salts : users'[u].password = hash(p, s)
                 /\ Authenticate(users', u, p) = "true"
                 /\ task_lists' = task_lists
    ]_vars

C5_Witness ==
    /\ last.op = "register_user"
    /\ last.ret = "AlreadyExists"
    /\ DOMAIN users = {"a", "A"}
    /\ users[last.username].password # MalformedHash
    /\ Authenticate(users, last.username, last.password) = "false"

\* what holds of authenticate in every state
C6_Answers ==
    /\ (last.op = "register_user" /\ last.ret = "Ok") =>
          /\ Authenticate(users, last.username, last.password) = "true"
          /\ \A q \in Passwords \ {last.password} :
                Authenticate(users, last.username, q) = "false"
    /\ \A u \in Usernames \ DOMAIN users, p \in Passwords :
          Authenticate(users, u, p) = "false"
    /\ \A u \in DOMAIN users, p \in Passwords :
          users[u].password = MalformedHash => Authenticate(users, u, p) = "false"
    /\ last.op = "authenticate" =>
          /\ last.ret \in {"true", "false"}
          /\ last.ret = Authenticate(users, last.username, last.password)

\* C6: right after register(u, p) succeeds authenticate(u, p) is true and
\* authenticate(u, p') is false for every other password; authenticate is
\* false for a user name not in the map and for a user whose stored hash is
\* malformed; it returns a boolean and changes nothing in the store.
C6_Authenticate ==
    /\ []C6_Answers
    /\ [][last'.op = "authenticate" =>
            /\ users' = users
            /\ task_lists' = task_lists
            /\ tasks_file' = tasks_file
            /\ users_file' = users_file]_vars

C6_Witness ==
    /\ last.op = "authenticate"
    /\ last.ret = "false"
    /\ last.username \in DOMAIN users
    /\ users[last.username].password = MalformedHash
    /\ \E u \in DOMAIN users : Authenticate(users, u, last.password) = "true"
    /\ task_lists # <<>>

\* C7: add_task(u, d) on a user without a list creates the list <<{1, d,
\* false}>>; on a list of length k it appends {k+1, d, false} and leaves the k
\* tasks as they were; every other user's list is untouched; after n calls in
\* a row on a fresh user the ids are 1..n in order; the new id is at least 1.
C7_AddTaskAppends ==
    [][last'.op = "add_task" =>
        LET u == last'.username
            old == TasksOf(task_lists, u)
            new == TasksOf(task_lists', u)
        IN  /\ HasList(task_lists', u)
            /\ ~HasList(task_lists, u) =>
                  new = <<Task(1, last'.description, FALSE)>>
            /\ new = Append(old, Task(Len(old) + 1, last'.description, FALSE))
            /\ new[Len(new)].id >= 1
            /\ \A v \in Usernames \ {u} :
                  /\ HasList(task_lists', v) = HasList(task_lists, v)
                  /\ TasksOf(task_lists', v) = TasksOf(task_lists, v)
            /\ last'.run > 0 =>
                  /\ Len(new) = last'.run
                  /\ \A k \in 1..Len(new) : new[k].id = k
    ]_vars

C7_Witness ==
    /\ last.op = "add_task"
    /\ last.run >= 2
    /\ Len(TasksOf(task_lists, last.username)) = last.run

\* C8: ids are reused: when add_task(u, d') directly follows a remove_task(u,
\* t) that took a task out and left t - 1 tasks, the new task gets the id t of
\* the removed task.
C8_IdReused ==
    (last.op = "add_task" /\ last.gone # <<>>) =>
        LET ts == TasksOf(task_lists, last.username) IN
        Len(ts) = last.gone[1].id => ts[Len(ts)].id = last.gone[1].id

C8_Witness ==
    /\ last.op = "add_task"
    /\ last.gone # <<>>
    /\ LET ts == TasksOf(task_lists, last.username) IN
       /\ ts[Len(ts)].id = last.gone[1].id
       /\ ts[Len(ts)].description # last.gone[1].description

\* C9: remove_task, edit_task and mark_completed on a user without a list or
\* on an id the user's list does not hold change neither the task lists nor
\* the user map, and return normally.
C9_MissingIsNoOp ==
    [][(/\ last'.op \in {"remove_task", "edit_task", "mark_completed"}
        /\ ~HasTask(task_lists, last'.username, last'.task_id)) =>
          /\ task_lists' = task_lists
          /\ users' = users
          /\ last'.ret = "unit"
    ]_vars

C9_Witness ==
    /\ last.op = "edit_task"
    /\ HasList(task_lists, last.username)
    /\ TasksOf(task_lists, last.username) # <<>>
    /\ ~HasTask(task_lists, last.username, last.task_id)

\* C10: remove_task(u, t) on a list that holds a task with id t makes the
\* list exactly one element shorter, keeps the other tasks as they were and
\* in order, and leaves every other list and the user map alone.
C10_RemovesOne ==
    [][(/\ last'.op = "remove_task"
        /\ HasTask(task_lists, last'.username, last'.task_id)) =>
          LET u == last'.username
              old == TasksOf(task_lists, u)
              new == TasksOf(task_lists', u)
          IN  /\ Len(new) = Len(old) - 1
              /\ \E k \in 1..Len(old) :
                    /\ old[k].id = last'.task_id
                    /\ new = SubSeq(old, 1, k - 1) \o SubSeq(old, k + 1, Len(old))
              /\ \A v \in Usernames \ {u} :
                    TasksOf(task_lists', v) = TasksOf(task_lists, v)
              /\ users' = users
    ]_vars

\* C11: edit_task(u, t, d) on a list that holds a task with id t leaves every
\* task of u with id t with description d, and changes no id, no completed
\* flag, no other description, not the length or order of the list, no other
\* user's list and not the user map.
C11_EditSetsDescription ==
    [][(/\ last'.op = "edit_task"
        /\ HasTask(task_lists, last'.username, last'.task_id)) =>
          LET u == last'.username
              old == TasksOf(task_lists, u)
              new == TasksOf(task_lists', u)
          IN  /\ Len(new) = Len(old)
              /\ \A k \in 1..Len(old) :
                    /\ new[k].id = old[k].id
                    /\ new[k].completed = old[k].completed
                    /\ old[k].id = last'.task_id =>
                          new[k].description = last'.description
                    /\ old[k].id # last'.task_id =>
                          new[k].description = old[k].description
              /\ \A v \in Usernames \ {u} :
                    TasksOf(task_lists', v) = TasksOf(task_lists, v)
              /\ users' = users
    ]_vars

\* the position of the first task with this id
FirstWithId(tasks, task_id) ==
    CHOOSE k \in 1..Len(tasks) :
        /\ tasks[k].id = task_id
        /\ \A j \in 1..(k - 1) : tasks[j].id # task_id

\* the list with the first task of this id completed and nothing else changed
C12_Marked(old, task_id) ==
    IF \E k \in 1..Len(old) : old[k].id = task_id
    THEN [old EXCEPT ![FirstWithId(old, task_id)].completed = TRUE]
    ELSE old

\* every task of before is in place with its flag kept or raised
C12_Kept(old, new) ==
    /\ Len(new) >= Len(old)
    /\ \A k \in 1..Len(old) :
          /\ new[k].id = old[k].id
          /\ old[k].completed => new[k].completed

\* what is left are tasks of before, unchanged and in their order
C12_Left(old, new) ==
    \A k \in 1..Len(new) : \E j \in k..Len(old) : new[k] = old[j]

\* C12: mark_completed(u, t) sets completed on the (first) task with id t and
\* changes no other field and no other task; no operation sets completed from
\* true to false: every operation but remove_task keeps every task in place
\* with its flag kept or raised, and what remove_task leaves in a list are
\* tasks of before, unchanged.
C12_CompletionSticks ==
    [][\/ task_lists' = task_lists /\ users' = users
       \/ /\ Len(task_lists') >= Len(task_lists)
          /\ last'.op = "mark_completed" => users' = users
          /\ \A i \in 1..Len(task_lists) :
                /\ task_lists'[i].username = task_lists[i].username
                /\ IF last'.op = "mark_completed"
                   THEN task_lists'[i].tasks =
                          IF task_lists[i].username = last'.username
                          THEN C12_Marked(task_lists[i].tasks, last'.task_id)
                          ELSE task_lists[i].tasks
                   ELSE IF last'.op = "remove_task"
                   THEN C12_Left(task_lists[i].tasks, task_lists'[i].tasks)
                   ELSE C12_Kept(task_lists[i].tasks, task_lists'[i].tasks)
    ]_vars

C12_Witness ==
    /\ last.op = "edit_task"
    /\ HasTask(task_lists, last.username, last.task_id)
    /\ LET ts == TasksOf(task_lists, last.username)
           k == FirstWithId(ts, last.task_id)
       IN  ts[k].completed /\ ts[k].description = last.description

\* C15: the store never holds two task lists of one user name; an add_task
\* for a user whose list has become empty goes into that list.
C15_OneListPerUser ==
    \A u \in Usernames :
        Cardinality({i \in 1..Len(task_lists) : task_lists[i].username = u}) <= 1

C15_Witness ==
    /\ last.op = "add_task"
    /\ last.run = 0
    /\ last.gone # <<>>
    /\ Len(TasksOf(task_lists, last.username)) = 1
    /\ Len(task_lists) = 2

\* the header for this user and one line per task, in list order
C19_Listing(ts, u, out) ==
    /\ Len(out) = Len(ts) + 1
    /\ out[1].kind = "Tasks for" /\ out[1].username = u
    /\ \A k \in 1..Len(ts) :
          /\ out[k + 1].kind = "ID"
          /\ out[k + 1].id = ts[k].id
          /\ out[k + 1].description = ts[k].description
          /\ out[k + 1].status = "Completed" <=> ts[k].completed
          /\ out[k + 1].status = "Pending" <=> ~ts[k].completed

\* what display prints for a user in this store
C19_Printed(lists, u, out) ==
    IF \E i \in 1..Len(lists) : lists[i].username = u
    THEN C19_Listing(TasksOf(lists, u), u, out)
    ELSE /\ Len(out) = 1
         /\ out[1].kind = "No tasks found for" /\ out[1].username = u

\* C19: a task list, once created, stays, also when remove_task has emptied
\* it; display then prints the header and no task line, and prints the "no
\* tasks found" line exactly when the user has no list; it prints the tasks
\* in list order with Completed for the completed ones and Pending for the
\* others and changes nothing; add_task on an emptied list gives id 1.
C19_ListsStay ==
    [][/\ \/ task_lists' = task_lists
          \/ /\ Len(task_lists') >= Len(task_lists)
             /\ \A i \in 1..Len(task_lists) :
                   task_lists'[i].username = task_lists[i].username
       /\ last'.op = "display_tasks" =>
            /\ task_lists' = task_lists
            /\ users' = users
            /\ tasks_file' = tasks_file /\ users_file' = users_file
            /\ C19_Printed(task_lists, last'.username, last'.out)
       /\ (/\ last'.op = "add_task"
           /\ HasList(task_lists, last'.username)
           /\ TasksOf(task_lists, last'.username) = <<>>) =>
            TasksOf(task_lists', last'.username) =
                <<Task(1, last'.description, FALSE)>>
    ]_vars

C19_Witness ==
    /\ last.op = "display_tasks"
    /\ HasList(task_lists, last.username)
    /\ TasksOf(task_lists, last.username) = <<>>
    /\ Len(last.out) = 1
    /\ last.out[1].kind = "Tasks for"

\* C13: load() on absent files gives the empty portions (no task lists with
\* the users of the users file, the task lists of the tasks file with no
\* users, the empty store when both are absent), and returns an error when a
\* file that exists does not parse.
C13_LoadCases ==
    [][last'.op = "load" =>
        /\ tasks_file = Absent => (last'.ret = "Ok" => task_lists' = NewTaskLists)
        /\ users_file = Absent => (last'.ret = "Ok" => users' = NewUsers)
        /\ (tasks_file = Absent /\ users_file = Absent) => last'.ret = "Ok"
        /\ (tasks_file = Absent /\ users_file = StoredUsersFile) =>
              /\ last'.ret = "Ok"
              /\ DOMAIN users' = {"A"}
              /\ users'["A"] = StoredUsers[1]
        /\ (tasks_file = StoredTasksFile /\ users_file = Absent) =>
              /\ last'.ret = "Ok"
              /\ task_lists' = StoredLists
        /\ (tasks_file = StaleTasksFile \/ users_file = StaleUsersFile) =>
              last'.ret = "Err"
    ]_vars

C13_Witness ==
    /\ last.op = "load"
    /\ last.ret = "Err"
    /\ tasks_file = StoredTasksFile
    /\ users_file = StaleUsersFile
    /\ HasEvent(last.io, "users.json", "read", "Err")

\* C14: no operation but save() changes a file; in a run of main save() is
\* called from the menu only, by option 6, and no operation follows it.
C14_OnlySaveWrites ==
    [][/\ last'.op # "save" =>
            tasks_file' = tasks_file /\ users_file' = users_file
       /\ last'.op = "save" =>
            /\ session.pc = "menu"
            /\ session'.choice = "6"
            /\ session'.pc \in {"done", "panicked"}
       /\ last.op # "save"
    ]_vars

C14_Witness ==
    /\ session.pc = "done"
    /\ last.op = "save"
    /\ last.ret = "Ok"
    /\ tasks_file # session.tasks_file0
    /\ users_file # session.users_file0

\* a line with a character that is neither white space nor a digit
C16_NonNumeric(line) ==
    \E k \in 1..Len(line) :
        line[k] \notin Whitespace \cup {DigitChars[d] : d \in 1..10}

\* C16: a non-numeric id line for menu option 3, 4 or 5 ends the run there:
\* no store operation is called, save() is not called, the files are what
\* they were at startup, and nothing follows.
C16_FatalId ==
    [][/\ (session'.choice \in {"3", "4", "5"} /\ C16_NonNumeric(session'.line)) =>
            /\ session'.pc = "panicked"
            /\ last' = last
            /\ task_lists' = task_lists /\ users' = users
            /\ tasks_file' = session.tasks_file0
            /\ users_file' = session.users_file0
       /\ ~(session.pc = "panicked" /\ session.choice # "6")
    ]_vars

C16_Witness ==
    /\ session.pc = "panicked"
    /\ session.choice = "4"
    /\ session.line = <<"x", "\n">>
    /\ task_lists # session.entry_lists
    /\ tasks_file = session.tasks_file0
    /\ users_file = session.users_file0

\* C17: in a run of main no task operation and no save() is called unless
\* authenticate has returned true before; when it returns false the run ends
\* with the files as they were at startup, also when a user was registered in
\* this run.
C17_AuthFirst ==
    [][/\ (/\ last' # last
           /\ last'.op \in {"display_tasks", "add_task", "remove_task",
                            "edit_task", "mark_completed", "save"}) =>
            session.auth = "true"
       /\ session'.pc = "menu" => session'.auth = "true"
       /\ (last'.op = "authenticate" /\ last'.ret = "false") =>
            /\ session'.pc = "denied"
            /\ tasks_file' = session.tasks_file0
            /\ users_file' = session.users_file0
       /\ session.pc # "denied"
    ]_vars

C17_Witness ==
    /\ session.pc = "denied"
    /\ session.registered # ""
    /\ session.registered = session.username
    /\ session.registered \in DOMAIN users
    /\ users_file = session.users_file0
    /\ ~ParseUsers(users_file.content).ok \/
          \A i \in 1..Len(ParseUsers(users_file.content).val) :
              ParseUsers(users_file.content).val[i].username # session.registered

\* C18: in the menu loop of a run logged in as u the lists of every other
\* user and the user map stay what they were when the loop was entered, and
\* a successful save() writes the task lists and the users of that map.
C18_OnlyOwnList ==
    [][session.pc = "menu" =>
        /\ users' = session.entry_users
        /\ \A v \in Usernames \ {session.username} :
              /\ HasList(task_lists', v) = HasList(session.entry_lists, v)
              /\ TasksOf(task_lists', v) = TasksOf(session.entry_lists, v)
        /\ (last'.op = "save" /\ last'.ret = "Ok") =>
              /\ StartsWith(tasks_file', SerTaskLists(task_lists))
              /\ \E values \in ValueOrders(session.entry_users) :
                    StartsWith(users_file', SerUsers(values))
    ]_vars

C18_Witness ==
    /\ session.pc = "done"
    /\ last.ret = "Ok"
    /\ session.username = "a"
    /\ TasksOf(task_lists, "a") # <<>>
    /\ TasksOf(task_lists, "A") = StoredLists[1].tasks
    /\ DOMAIN users = {"a", "A"}

\* C20: when a file found at startup does not parse, main goes on with the
\* empty store: the store holds only the user registered and the tasks added
\* in this run, only that user can log in, and a successful save() writes
\* that store.
C20_FailedLoadEmptyStore ==
    [][(\/ session.tasks_file0 = StaleTasksFile
        \/ session.users_file0 = StaleUsersFile) =>
        /\ session.pc = "start" =>
              /\ last'.ret = "Err"
              /\ task_lists' = NewTaskLists
              /\ users' = NewUsers
        /\ DOMAIN users' \subseteq {session'.registered} \ {""}
        /\ \A i \in 1..Len(task_lists') :
              task_lists'[i].username = session'.username
        /\ (last'.op = "authenticate" /\ last'.ret = "true") =>
              last'.username = session.registered
        /\ (last'.op = "save" /\ last'.ret = "Ok") =>
              /\ StartsWith(tasks_file', SerTaskLists(task_lists))
              /\ \E values \in ValueOrders(users) :
                    StartsWith(users_file', SerUsers(values))
    ]_vars

C20_Witness ==
    /\ session.pc = "done"
    /\ last.ret = "Ok"
    /\ session.tasks_file0 = StoredTasksFile
    /\ session.users_file0 = StaleUsersFile
    /\ ~HasList(task_lists, "A")
    /\ task_lists # NewTaskLists

====
